---- MODULE Spec2Model ----
(***************************************************************************)
(* LinkNode tracking backend: the two location-ingestion endpoints         *)
(* (POST /tracking/update, POST /smart/location/update), delivery          *)
(* confirmation (POST /shipments/:id/confirm-delivery) and the socket.io   *)
(* handler that manages the per-shipment rooms.                            *)
(*                                                                         *)
(* Every handler is an async function; it is cut into one action per       *)
(* awaited database statement, because other handlers run while a          *)
(* statement is awaited.  Code between two awaits runs atomically (one     *)
(* event-loop turn).  The store is assumed available: the only exceptions  *)
(* modelled are the ones the code itself raises.                           *)
(***************************************************************************)
EXTENDS Integers, Sequences, FiniteSets, TLC

(* ---------------------------- bounds ----------------------------------- *)
MaxReq == 2           \* HTTP requests issued in one behaviour of Spec
RaceReq == 3          \* HTTP requests issued in one behaviour of SpecRace
MaxConn == 1          \* socket connections opened in one behaviour of SpecHub
PubConn == 1          \* socket connections opened in one behaviour of SpecPublish
PubReq == 1           \* ingest requests issued in one behaviour of SpecPublish
MaxTime == 1          \* last second of the database clock NOW()
MaxRecs == 4          \* recommendations of one ingestion event
MaxHistory == 3       \* rows of a tracking history handed to the ETA service
MaxIdleHistory == 5   \* rows of a tracking history handed to the idle analyzer
MaxTrack == 4         \* samples of a trip handed to the route analysis
TripSteps == 5        \* sampling intervals of a trip to the destination
MaxSpeedHistory == 11 \* stored samples of a shipment when its speed is estimated
MaxDelayHistory == 6  \* rows of a tracking history handed to the delay analyzer
MaxSamples == 3       \* positions the driver page captures during a trip

AllReqIds == 1..(MaxReq + RaceReq + PubReq)
AllConns == 1..(MaxConn + PubConn)

(* ------------------------- static data --------------------------------- *)
NULL == "null"

\* users table / JWT payload: id, role, organizationId
Users ==
  { [id |-> 1, role |-> "driver", organizationId |-> NULL],
    [id |-> 2, role |-> "driver", organizationId |-> NULL],
    [id |-> 3, role |-> "admin",  organizationId |-> "orgB"],
    [id |-> 4, role |-> "admin",  organizationId |-> NULL] }

\* callers of the HTTP endpoints
HttpUsers == { u \in Users : u.id \in {1, 2, 3} }

\* identities that open a socket
SocketUsers == { u \in Users : u.id \in {1, 3, 4} }

\* shipments table, the columns no handler writes: shipment 1 belongs to
\* driver 1 and organization orgA, shipment 2 to driver 2 and no organization
Shipments == {1, 2}
driver_id == [s \in Shipments |-> s]
organization_id == [s \in Shipments |-> IF s = 1 THEN "orgA" ELSE NULL]

\* ids a client may send: the two shipments and one id of no row
ShipmentIds == Shipments \cup {3}

\* (latitude, longitude) pairs a client may send
Coordinates == { <<28, 77>>, <<95, 77>>, <<28, 200>> }

VARIABLES
  status,              \* shipments.status
  updated_at,          \* shipments.updated_at
  tracking_locations,  \* rows of tracking_locations, id = index
  clock,               \* NOW() of the database, in seconds
  reqs,                \* the HTTP requests in flight and where each handler stands
  last,                \* the request that finished last: inputs, response, effects
  transitions,         \* per shipment: UPDATEs to in_transit run by ingests
  statusUpdates,       \* per shipment: shipment_status_update events emitted
  firstIngests,        \* per shipment: ingests that loaded it pending and without rows
  socketUser,          \* socket.user, set by the handshake middleware
  sockets,             \* io.sockets: the live sockets
  connectedUsers,      \* SocketHandler.connectedUsers (its keys)
  closed,              \* sockets that have disconnected
  rooms,               \* adapter rooms: shipment_<id> -> socket ids
  joining,             \* join_shipment handlers awaiting findById
  lastAck,             \* the last event emitted to a single socket
  leftSince,           \* (socket, shipment): leave processed, no join issued since
  call,                \* the last call of an analytics function: name, input, result
  driver,              \* the driver page: isOnline, locationQueue, sends, and what the server got
  client               \* the page's SocketClient: its socket, connected, the rooms it joined

httpVars == << status, updated_at, tracking_locations, clock, reqs, last,
               transitions, statusUpdates, firstIngests >>
hubVars == << socketUser, sockets, connectedUsers, closed, rooms, joining, lastAck,
              leftSince >>
pageVars == << driver, client >>
vars == << httpVars, hubVars, call, pageVars >>

(* ------------------------ the driver page ------------------------------ *)
\* js/driver-new.js lines 14-17 at page load, with the page online.  captured
\* counts the positions handed to handlePositionUpdate (sample k is the k-th),
\* sending holds the samples whose updateLocation call of sendLocationUpdate
\* is awaited, flush the rest of the copy processLocationQueue iterates over,
\* accepting says whether the server answers requests with success, received
\* lists the samples in the order the server stored them.
NewDriver ==
  [ isOnline |-> TRUE, locationQueue |-> << >>, captured |-> 0, sending |-> {},
    flush |-> << >>, accepting |-> TRUE, received |-> << >> ]

\* SocketClient after its constructor (lines 639-645): socket is the id of
\* the current socket (0: none), reconnected says that socket.io opened it
\* after a disconnect, before holds the shipments whose room the socket was
\* in when it last disconnected
NewClient ==
  [ socket |-> 0, connected |-> FALSE, reconnected |-> FALSE, before |-> {} ]

(* ------------------------ requests ------------------------------------- *)
NoUser == [id |-> 0, role |-> "none", organizationId |-> NULL]

\* events: the events the handler emitted; roomAt, socketsAt: the room of the
\* request's shipment and io.sockets when the handler emitted or, if it threw
\* before it could, when it threw
NewReq ==
  [ pc |-> "new", req |-> 0, kind |-> "none", user |-> NoUser, shipment_id |-> 0,
    latitude |-> 0, longitude |-> 0, snap |-> "none", loc |-> 0,
    isFirstUpdate |-> FALSE, updatedStatus |-> FALSE, touched |-> FALSE,
    events |-> {}, roomAt |-> {}, socketsAt |-> {}, response |-> "none" ]

DoneReq == [NewReq EXCEPT !.pc = "done"]

\* a handler that sends location_update whenever it answers
RespondWithBroadcast(q, code) ==
  [q EXCEPT !.pc = "done", !.response = code,
            !.events = @ \cup {[event |-> "location_update", shipment_id |-> q.shipment_id,
                                latitude |-> q.latitude, longitude |-> q.longitude,
                                to |-> {}]}]

\* res.status(...).json(...) or next(err): the handler is over
Respond(q, code) == [q EXCEPT !.pc = "done", !.response = code]

\* requests are issued in the order of their ids
CanIssue(r) == reqs[r].pc = "new" /\ (IF r = 1 THEN TRUE ELSE reqs[r - 1].pc # "new")

\* the request record after a step: a finished request leaves reqs for last
Step(r, q) ==
  IF q.pc = "done"
    THEN reqs' = [reqs EXCEPT ![r] = DoneReq] /\ last' = q
    ELSE reqs' = [reqs EXCEPT ![r] = q] /\ UNCHANGED last

(* ------------------ middleware and validators -------------------------- *)
authorize(roles, user) == user.role \in roles

\* a validator without the max rule
MaxErrorsOff(field, value, max) == {}

\* middleware/validator.js validateObject, rules min and max of one field
MinErrors(field, value, min) == IF value < min THEN {<<field, "min">>} ELSE {}
MaxErrors(field, value, max) == IF value > max THEN {<<field, "max">>} ELSE {}

\* validate(updateLocationSchema): the errors of a request body
updateLocationValidation(shipment_id, latitude, longitude) ==
  MinErrors("shipment_id", shipment_id, 1)
    \cup MinErrors("latitude", latitude, -90) \cup MaxErrors("latitude", latitude, 90)
    \cup MinErrors("longitude", longitude, -180) \cup MaxErrors("longitude", longitude, 180)

\* express-validator chain of POST /smart/location/update: does the body pass
smartValidation(shipment_id, latitude, longitude) ==
  /\ shipment_id >= 1
  /\ latitude >= -90 /\ latitude <= 90
  /\ longitude >= -180 /\ longitude <= 180

isValidLatitude(lat) == lat >= -90 /\ lat <= 90
isValidLongitude(lng) == lng >= -180 /\ lng <= 180

(* ------------------------- the store ----------------------------------- *)
\* SELECT ... FROM shipments WHERE id = ? [AND driver_id = ?]: is there a row
findById(id, userRole, userId) ==
  /\ id \in Shipments
  /\ userRole = "driver" => driver_id[id] = userId

\* rows of one shipment in tracking_locations
RowsOf(shipmentId) ==
  { i \in 1..Len(tracking_locations) : tracking_locations[i].shipment_id = shipmentId }

\* ORDER BY recorded_at DESC LIMIT 1: any row with the greatest recorded_at
\* (TIMESTAMP has one-second resolution, rows of the same second tie)
getLatestByShipment(shipmentId) ==
  { i \in RowsOf(shipmentId) :
      \A j \in RowsOf(shipmentId) :
        tracking_locations[j].recorded_at <= tracking_locations[i].recorded_at }

\* ORDER BY recorded_at DESC
RECURSIVE orderByRecordedAtDesc(_)
orderByRecordedAtDesc(ids) ==
  IF ids = {} THEN << >>
  ELSE LET first == CHOOSE i \in ids : \A j \in ids :
                      \/ tracking_locations[i].recorded_at > tracking_locations[j].recorded_at
                      \/ /\ tracking_locations[i].recorded_at = tracking_locations[j].recorded_at
                         /\ i >= j
       IN << tracking_locations[first] >> \o orderByRecordedAtDesc(ids \ {first})

\* ORDER BY recorded_at ASC over the rows ids; rows of the same second are
\* put in the order of their ids
RECURSIVE orderByRecordedAt(_)
orderByRecordedAt(ids) ==
  IF ids = {} THEN << >>
  ELSE LET first == CHOOSE i \in ids : \A j \in ids :
                      \/ tracking_locations[i].recorded_at < tracking_locations[j].recorded_at
                      \/ /\ tracking_locations[i].recorded_at = tracking_locations[j].recorded_at
                         /\ i <= j
       IN << tracking_locations[first] >> \o orderByRecordedAt(ids \ {first})

\* TrackingLocationModel.getLocationHistory without startTime and endTime
getLocationHistory(shipmentId) == orderByRecordedAt(RowsOf(shipmentId))

\* no organization check at all
organizationDeniedOff(user, shipmentId) == FALSE

\* the organization check every handler repeats for administrators
organizationDenied(user, shipmentId) ==
  /\ user.role = "admin"
  /\ user.organizationId # NULL
  /\ organization_id[shipmentId] # NULL
  /\ organization_id[shipmentId] # user.organizationId

(* ------------------------- socket.io ----------------------------------- *)
\* an emit to every live socket, whatever the room
RoomEmitAll(shipmentId) == sockets

\* io.to(room).emit: the adapter sends to the sockets of the room that are
\* still in io.sockets
RoomEmit(shipmentId) == rooms[shipmentId] \cap sockets

\* the payload carries the coordinates of the stored row
emitLocationUpdate(shipmentId, location) ==
  [event |-> "location_update", shipment_id |-> shipmentId,
   latitude |-> location.latitude, longitude |-> location.longitude,
   to |-> RoomEmit(shipmentId)]

emitShipmentStatusUpdate(shipmentId) ==
  [event |-> "shipment_status_update", shipment_id |-> shipmentId,
   latitude |-> 0, longitude |-> 0, to |-> RoomEmit(shipmentId)]

emitShipmentDelivered(shipmentId) ==
  [event |-> "shipment_delivered", shipment_id |-> shipmentId,
   latitude |-> 0, longitude |-> 0, to |-> RoomEmit(shipmentId)]

(* -------------- POST /tracking/update (trackingController) ------------- *)
\* route middleware: authenticate, authorize('driver'), updateLocationValidation
TrackReceive(r) ==
  /\ CanIssue(r)
  /\ \E u \in HttpUsers, id \in ShipmentIds, c \in Coordinates :
       LET q == [reqs[r] EXCEPT !.req = r, !.kind = "track", !.user = u,
                                !.shipment_id = id, !.latitude = c[1],
                                !.longitude = c[2]]
       IN Step(r, IF ~authorize({"driver"}, u)
                    THEN Respond(q, "FORBIDDEN")
                  ELSE IF updateLocationValidation(id, c[1], c[2]) # {}
                    THEN Respond(q, "VALIDATION_ERROR")
                  ELSE [q EXCEPT !.pc = "findById"])
  /\ UNCHANGED << status, updated_at, tracking_locations, clock, transitions,
                  statusUpdates, firstIngests >>
  /\ UNCHANGED << hubVars, call, pageVars >>

\* updateLocation lines 8-20: load the shipment, check the caller
TrackFindById(r) ==
  /\ reqs[r].pc = "findById" /\ reqs[r].kind = "track"
  /\ LET q == reqs[r]
         ok == /\ findById(q.shipment_id, NULL, NULL)
               /\ ~(q.user.role = "driver" /\ driver_id[q.shipment_id] # q.user.id)
               /\ ~organizationDenied(q.user, q.shipment_id)
     IN /\ Step(r, IF ~findById(q.shipment_id, NULL, NULL)
                     THEN Respond(q, "SHIPMENT_NOT_FOUND")
                   ELSE IF q.user.role = "driver" /\ driver_id[q.shipment_id] # q.user.id
                     THEN Respond(q, "SHIPMENT_ACCESS_DENIED")
                   ELSE IF organizationDenied(q.user, q.shipment_id)
                     THEN Respond(q, "ORGANIZATION_ACCESS_DENIED")
                   ELSE [q EXCEPT !.pc = "create", !.snap = status[q.shipment_id]])
        /\ firstIngests' =
             IF ok /\ status[q.shipment_id] = "pending" /\ RowsOf(q.shipment_id) = {}
               THEN [firstIngests EXCEPT ![q.shipment_id] = @ + 1]
               ELSE firstIngests
  /\ UNCHANGED << status, updated_at, tracking_locations, clock, transitions,
                  statusUpdates >>
  /\ UNCHANGED << hubVars, call, pageVars >>

\* TrackingLocationModel.create: coordinate check, then INSERT ... NOW()
TrackCreate(r) ==
  /\ reqs[r].pc = "create"
  /\ LET q == reqs[r] IN
     IF ~isValidLatitude(q.latitude) \/ ~isValidLongitude(q.longitude)
       THEN /\ Step(r, Respond(q, "INVALID_COORDINATES"))
            /\ UNCHANGED tracking_locations
       ELSE /\ tracking_locations' = Append(tracking_locations,
                 [ shipment_id |-> q.shipment_id, latitude |-> q.latitude,
                   longitude |-> q.longitude, recorded_at |-> clock ])
            /\ Step(r, [q EXCEPT !.pc = "getLatest",
                                 !.loc = Len(tracking_locations) + 1])
  /\ UNCHANGED << status, updated_at, clock, transitions, statusUpdates, firstIngests >>
  /\ UNCHANGED << hubVars, call, pageVars >>

\* updateLocation lines 30-33: re-read the latest row, compare its id
TrackGetLatest(r) ==
  /\ reqs[r].pc = "getLatest"
  /\ \E firstUpdate \in getLatestByShipment(reqs[r].shipment_id) :
       LET isFirstUpdate == firstUpdate = reqs[r].loc IN
       Step(r, [reqs[r] EXCEPT !.isFirstUpdate = isFirstUpdate,
                               !.pc = IF isFirstUpdate /\ reqs[r].snap = "pending"
                                        THEN "updateStatus" ELSE "updateTimestamp"])
  /\ UNCHANGED << status, updated_at, tracking_locations, clock, transitions,
                  statusUpdates, firstIngests >>
  /\ UNCHANGED << hubVars, call, pageVars >>

\* ShipmentModel.updateStatus, after its UPDATE has run: db.query returns the
\* result header of the UPDATE (database.js lines 40-41), an object that is
\* not iterable, so `const [result] = await db.query(...)` throws a TypeError;
\* asyncHandler hands it to errorHandler, which answers 500 INTERNAL_ERROR.
updateStatus(q) ==
  [q EXCEPT !.pc = "done", !.updatedStatus = TRUE, !.touched = TRUE,
            !.response = "INTERNAL_ERROR"]

\* updateLocation line 34
TrackUpdateStatus(r) ==
  /\ reqs[r].pc = "updateStatus"
  /\ status' = [status EXCEPT ![reqs[r].shipment_id] = "in_transit"]
  /\ updated_at' = [updated_at EXCEPT ![reqs[r].shipment_id] = clock]
  /\ transitions' = [transitions EXCEPT ![reqs[r].shipment_id] = @ + 1]
  /\ Step(r, [updateStatus(reqs[r]) EXCEPT !.roomAt = rooms[reqs[r].shipment_id],
                                           !.socketsAt = sockets])
  /\ UNCHANGED << tracking_locations, clock, statusUpdates, firstIngests >>
  /\ UNCHANGED << hubVars, call, pageVars >>

\* updateLocation lines 37-68: updateTimestamp, the emits, the 201 response
TrackFinish(r) ==
  /\ reqs[r].pc = "updateTimestamp"
  /\ LET q == reqs[r]
         first == q.isFirstUpdate /\ q.snap = "pending"
     IN /\ updated_at' = [updated_at EXCEPT ![q.shipment_id] = clock]
        /\ statusUpdates' = IF first
                              THEN [statusUpdates EXCEPT ![q.shipment_id] = @ + 1]
                              ELSE statusUpdates
        /\ Step(r, Respond([q EXCEPT
               !.touched = TRUE,
               !.events = {emitLocationUpdate(q.shipment_id, tracking_locations[q.loc])}
                           \cup (IF first THEN {emitShipmentStatusUpdate(q.shipment_id)}
                                          ELSE {}),
               !.roomAt = rooms[q.shipment_id],
               !.socketsAt = sockets], "201"))
  /\ UNCHANGED << status, tracking_locations, clock, transitions, firstIngests >>
  /\ UNCHANGED << hubVars, call, pageVars >>

(* ------- POST /shipments/:id/confirm-delivery (shipmentController) ----- *)
\* route middleware: authenticate, authorize('driver'), confirmDeliveryValidation
ConfirmReceive(r) ==
  /\ CanIssue(r)
  /\ \E u \in HttpUsers, id \in ShipmentIds :
       LET q == [reqs[r] EXCEPT !.req = r, !.kind = "confirm", !.user = u,
                                !.shipment_id = id]
       IN Step(r, IF ~authorize({"driver"}, u)
                    THEN Respond(q, "FORBIDDEN")
                    ELSE [q EXCEPT !.pc = "findById"])
  /\ UNCHANGED << status, updated_at, tracking_locations, clock, transitions,
                  statusUpdates, firstIngests >>
  /\ UNCHANGED << hubVars, call, pageVars >>

\* ShipmentModel.confirmDelivery lines 342-357: load the shipment, the checks
ConfirmFindById(r) ==
  /\ reqs[r].pc = "findById" /\ reqs[r].kind = "confirm"
  /\ LET q == reqs[r] IN
     Step(r, IF ~findById(q.shipment_id, NULL, NULL)
               THEN Respond(q, "SHIPMENT_NOT_FOUND")
             ELSE IF driver_id[q.shipment_id] # q.user.id
               THEN Respond(q, "SHIPMENT_ACCESS_DENIED")
             ELSE IF status[q.shipment_id] = "delivered"
               THEN Respond(q, "ALREADY_DELIVERED")
             ELSE IF status[q.shipment_id] # "in_transit"
               THEN Respond(q, "INVALID_STATUS")
             ELSE [q EXCEPT !.pc = "confirmUpdate", !.snap = status[q.shipment_id]])
  /\ UNCHANGED << status, updated_at, tracking_locations, clock, transitions,
                  statusUpdates, firstIngests >>
  /\ UNCHANGED << hubVars, call, pageVars >>

\* ShipmentModel.confirmDelivery lines 359-373: UPDATE ... SET status = 'delivered'
ConfirmUpdate(r) ==
  /\ reqs[r].pc = "confirmUpdate"
  /\ status' = [status EXCEPT ![reqs[r].shipment_id] = "delivered"]
  /\ updated_at' = [updated_at EXCEPT ![reqs[r].shipment_id] = clock]
  /\ Step(r, [reqs[r] EXCEPT !.pc = "confirmReload", !.updatedStatus = TRUE,
                             !.touched = TRUE])
  /\ UNCHANGED << tracking_locations, clock, transitions, statusUpdates, firstIngests >>
  /\ UNCHANGED << hubVars, call, pageVars >>

\* confirmDelivery line 375 and the controller: reload, emit, 200
ConfirmFinish(r) ==
  /\ reqs[r].pc = "confirmReload"
  /\ LET q == reqs[r] IN
     Step(r, Respond([q EXCEPT !.events = {emitShipmentDelivered(q.shipment_id)},
                               !.roomAt = rooms[q.shipment_id],
                               !.socketsAt = sockets], "200"))
  /\ UNCHANGED << status, updated_at, tracking_locations, clock, transitions,
                  statusUpdates, firstIngests >>
  /\ UNCHANGED << hubVars, call, pageVars >>

(* ------- POST /smart/location/update (smartTrackingController) --------- *)
\* `const { pool } = require('../config/database')` runs when the routes are
\* loaded, before startServer calls db.initialize(): it copies the null the
\* DatabasePool constructor stored.  Every pool.execute(...) of the controller
\* therefore throws a TypeError, which the handler's catch answers with 500.
poolExecute(q) == Respond(q, "INTERNAL_SERVER_ERROR")

\* the route has no authenticate/authorize middleware; `user` only records
\* who sent the request.  Lines 24-29 reject falsy fields, line 32 is the
\* first pool.execute.
SmartUpdateLocation(r) ==
  /\ CanIssue(r)
  /\ \E u \in HttpUsers, id \in ShipmentIds, c \in Coordinates :
       LET q == [reqs[r] EXCEPT !.req = r, !.kind = "smart", !.user = u,
                                !.shipment_id = id, !.latitude = c[1],
                                !.longitude = c[2]]
       IN Step(r, IF ~smartValidation(id, c[1], c[2])
                    THEN Respond(q, "VALIDATION_FAILED")
                  ELSE IF id = 0 \/ c[1] = 0 \/ c[2] = 0
                    THEN Respond(q, "MISSING_FIELDS")
                  ELSE poolExecute(q))
  /\ UNCHANGED << status, updated_at, tracking_locations, clock, transitions,
                  statusUpdates, firstIngests >>
  /\ UNCHANGED << hubVars, call, pageVars >>

\* POST /smart/route-analysis/:shipmentId, completeRouteAnalysis: the route has
\* no middleware at all; the handler's first statement is a pool.execute, which
\* throws on the null pool before the row count is looked at, and the catch
\* answers 500.
CompleteRouteAnalysis(r) ==
  /\ CanIssue(r)
  /\ \E id \in ShipmentIds :
       Step(r, poolExecute([reqs[r] EXCEPT !.req = r, !.kind = "analysis",
                                          !.shipment_id = id]))
  /\ UNCHANGED << status, updated_at, tracking_locations, clock, transitions,
                  statusUpdates, firstIngests >>
  /\ UNCHANGED << hubVars, call, pageVars >>

\* a second passes on the database clock
Tick ==
  /\ clock < MaxTime
  /\ clock' = clock + 1
  /\ UNCHANGED << status, updated_at, tracking_locations, reqs, last, transitions,
                  statusUpdates, firstIngests >>
  /\ UNCHANGED << hubVars, call, pageVars >>

(* --------------------- socket handler (socket/index.js) ---------------- *)
NoAck == [to |-> 0, event |-> "none", shipment_id |-> 0, message |-> "none"]

\* socket.emit(event, ...): a socket that has closed discards the packet
socketEmit(c, event, id, message) ==
  IF c \in sockets
    THEN [to |-> c, event |-> event, shipment_id |-> id, message |-> message]
    ELSE lastAck

\* data.shipment_id values a client may send: the shipments and 0 (falsy)
JoinIds == Shipments \cup {0}

\* handshake middleware and handleConnection; socket ids are never reused
Connect(c) ==
  /\ c \notin sockets /\ c \notin closed
  /\ (c = 1 \/ (c - 1) \in sockets \cup closed)
  /\ \E u \in SocketUsers : socketUser' = [socketUser EXCEPT ![c] = u]
  /\ sockets' = sockets \cup {c}
  /\ connectedUsers' = connectedUsers \cup {c}
  /\ UNCHANGED << closed, rooms, joining, lastAck, leftSince >>
  /\ UNCHANGED << httpVars, call, pageVars >>

\* handleJoinShipment lines 94-107: validate data, send the findById query
JoinStart(c, id) ==
  /\ c \in sockets
  /\ IF id = 0
       THEN /\ lastAck' = socketEmit(c, "error", 0, "Invalid shipment_id")
            /\ UNCHANGED << joining, leftSince >>
       ELSE /\ joining' = joining \cup {<<c, id>>}
            /\ leftSince' = leftSince \ {<<c, id>>}
            /\ UNCHANGED lastAck
  /\ UNCHANGED << socketUser, sockets, connectedUsers, closed, rooms >>
  /\ UNCHANGED << httpVars, call, pageVars >>

\* the rule handleJoinShipment applies: findById filtered by driver, then the
\* organization check
joinAllowed(user, id) ==
  /\ findById(id, user.role, user.id)
  /\ ~organizationDenied(user, id)

\* socket.join(room): the adapter adds the socket id to the room; it does not
\* look whether the socket is still connected
socketJoin(c, id) == [rooms EXCEPT ![id] = @ \cup {c}]

\* handleJoinShipment lines 109-134: the query has returned
JoinFinish(c, id) ==
  /\ <<c, id>> \in joining
  /\ joining' = joining \ {<<c, id>>}
  /\ LET user == socketUser[c] IN
     IF ~findById(id, user.role, user.id)
       THEN /\ lastAck' = socketEmit(c, "error", 0, "Shipment not found")
            /\ UNCHANGED rooms
     ELSE IF organizationDenied(user, id)
       THEN /\ lastAck' = socketEmit(c, "error", 0, "Access denied to this shipment")
            /\ UNCHANGED rooms
     ELSE /\ rooms' = socketJoin(c, id)
          /\ lastAck' = socketEmit(c, "joined_shipment", id, "Successfully joined shipment room")
  /\ UNCHANGED << socketUser, sockets, connectedUsers, closed, leftSince >>
  /\ UNCHANGED << httpVars, call, pageVars >>

\* a leave that adds the socket when it is not in the room
leaveRoomToggle(table, c, id) ==
  [s \in Shipments |->
     IF s # id THEN table[s]
     ELSE IF c \in table[s] THEN table[s] \ {c} ELSE table[s] \cup {c}]

\* the adapter's del: the socket id is deleted from the room's set
leaveRoom(table, c, id) ==
  [s \in Shipments |-> IF s = id THEN table[s] \ {c} ELSE table[s]]

\* socket.leave(room)
socketLeave(c, id) == leaveRoom(rooms, c, id)

\* handleLeaveShipment
LeaveShipment(c, id) ==
  /\ c \in sockets
  /\ IF id = 0
       THEN /\ lastAck' = socketEmit(c, "error", 0, "Invalid shipment_id")
            /\ UNCHANGED << rooms, leftSince >>
       ELSE /\ rooms' = socketLeave(c, id)
            /\ lastAck' = socketEmit(c, "left_shipment", id, "Successfully left shipment room")
            /\ leftSince' = leftSince \cup {<<c, id>>}
  /\ UNCHANGED << socketUser, sockets, connectedUsers, closed, joining >>
  /\ UNCHANGED << httpVars, call, pageVars >>

\* the socket closes: socket.io takes it out of every room and of io.sockets,
\* then the 'disconnect' listener runs handleDisconnection
handleDisconnection(c) == connectedUsers \ {c}

Disconnect(c) ==
  /\ c \in sockets
  /\ rooms' = [s \in Shipments |-> rooms[s] \ {c}]
  /\ sockets' = sockets \ {c}
  /\ closed' = closed \cup {c}
  /\ connectedUsers' = handleDisconnection(c)
  /\ UNCHANGED << socketUser, joining, lastAck, leftSince >>
  /\ UNCHANGED << httpVars, call, pageVars >>

(* ------------- analytics: pure functions of the smart endpoint ---------- *)
NoCall == [fn |-> "none", in |-> << >>, out |-> 0]

Min(a, b) == IF a < b THEN a ELSE b

\* severities the analyzers attach to a recommendation
Severities == {"low", "medium", "high"}

\* the recommendation lists of one event, by their severities
RecommendationLists ==
  UNION { [1..n -> [severity : Severities]] : n \in 0..MaxRecs }

\* the switch of calculateRiskScore: a severity it does not name adds nothing
severityWeight(severity) ==
  CASE severity = "high" -> 30
    [] severity = "medium" -> 15
    [] severity = "low" -> 5
    [] OTHER -> 0

\* the forEach of calculateRiskScore
RECURSIVE riskSum(_)
riskSum(recommendations) ==
  IF recommendations = << >>
    THEN 0
    ELSE severityWeight(Head(recommendations).severity) + riskSum(Tail(recommendations))

\* a score that adds to the score of the call before
calculateRiskScoreCumulative(recommendations) ==
  Min(call.out + riskSum(recommendations), 100)

\* smartTrackingController.js calculateRiskScore
calculateRiskScore(recommendations) ==
  IF Len(recommendations) = 0
    THEN 0
    ELSE Min(riskSum(recommendations), 100)

\* the risk score of one ingestion event (updateLocation lines 76-89, 131)
RiskScoreEvent ==
  /\ \E recommendations \in RecommendationLists :
       call' = [fn |-> "calculateRiskScore", in |-> recommendations,
                out |-> calculateRiskScore(recommendations)]
  /\ UNCHANGED << httpVars, hubVars, pageVars >>

(* ------------------------- ETAService (seed.js) ------------------------ *)
\* Instants are milliseconds since local midnight of the first day, positions
\* are metres along the great circle through the destination (on it the
\* haversine distance of two points is the difference of their positions),
\* speeds are m/s.  A speed that is not an integer is a pair <<num, den>>.
\* Floating-point rounding is not modelled.
Hour == 3600000
DefaultDuration == 2 * Hour      \* 2 * 60 * 60 * 1000
defaultSpeed == << 10, 1 >>      \* this.defaultSpeed = 10

\* arguments: null is JavaScript's null/undefined; hasDestination says whether
\* the shipment object carries destination coordinates
NullShipment == [null |-> TRUE, hasDestination |-> FALSE, destination |-> 0]
NullLocation == [null |-> TRUE, position |-> 0]
NullHistory == [null |-> TRUE, rows |-> << >>]

Abs(x) == IF x < 0 THEN -x ELSE x

\* the distance already travelled from position 0
calculateDistanceFromOrigin(currentLocation, shipment) ==
  Abs(currentLocation.position)

\* ETAService.calculateRemainingDistance on the line
calculateRemainingDistance(currentLocation, shipment) ==
  Abs(shipment.destination - currentLocation.position)

\* trackingHistory.slice(-10)
Last10(rows) ==
  IF Len(rows) <= 10 THEN rows ELSE SubSeq(rows, Len(rows) - 9, Len(rows))

\* .map(t => t.speed).filter(s => s > 0 && s < 50)
RECURSIVE validSpeedsOf(_)
validSpeedsOf(rows) ==
  IF rows = << >> THEN << >>
  ELSE IF Head(rows).speed > 0 /\ Head(rows).speed < 50
    THEN << Head(rows).speed >> \o validSpeedsOf(Tail(rows))
    ELSE validSpeedsOf(Tail(rows))

\* sum of speed * (index + 1) and of (index + 1): weightedSum and totalWeight
\* of analyzeCurrentSpeed, both multiplied by validSpeeds.length
RECURSIVE weightedSum(_, _)
weightedSum(speeds, n) ==
  IF n = 0 THEN 0 ELSE speeds[n] * n + weightedSum(speeds, n - 1)

RECURSIVE totalWeight(_)
totalWeight(n) == IF n = 0 THEN 0 ELSE n + totalWeight(n - 1)

\* ETAService.analyzeCurrentSpeed: the recency-weighted average, <<num, den>>
analyzeCurrentSpeed(trackingHistory) ==
  IF trackingHistory.null \/ Len(trackingHistory.rows) < 3
    THEN defaultSpeed
    ELSE LET validSpeeds == validSpeedsOf(Last10(trackingHistory.rows)) IN
         IF Len(validSpeeds) = 0
           THEN defaultSpeed
           ELSE << weightedSum(validSpeeds, Len(validSpeeds)),
                   totalWeight(Len(validSpeeds)) >>

\* new Date().getHours() at instant now
getHours(now) == (now \div Hour) % 24

\* ETAService.getTrafficFactor, in tenths: RUSH_HOUR 1.5, NIGHT 0.8, NORMAL 1.0
getTrafficFactor(now) ==
  LET hour == getHours(now) IN
  IF (hour >= 7 /\ hour <= 9) \/ (hour >= 17 /\ hour <= 19) THEN 15
  ELSE IF hour >= 22 \/ hour <= 5 THEN 8
  ELSE 10

\* ETAService.getHistoricalFactor: the module database.js exports has no
\* method execute, db.execute(...) throws a TypeError and the catch returns 1.0
getHistoricalFactor(shipment) == 1

\* ETAService.calculateConfidence
calculateConfidence(dataPoints) ==
  IF dataPoints >= 20 THEN "high"
  ELSE IF dataPoints >= 10 THEN "medium"
  ELSE "low"

\* what calculateETA returns: keys are the properties of the returned value,
\* time the instant it carries (of the Date itself when it has no properties),
\* invalidDate says that the instant is NaN (an Invalid Date)
EtaResult(keys, time, invalidDate, confidence) ==
  [ threw |-> FALSE, keys |-> keys, time |-> time, invalidDate |-> invalidDate,
    confidence |-> confidence ]

\* the catch of calculateETA
EtaFallback(now) ==
  EtaResult({"eta", "confidence"}, now + DefaultDuration, FALSE, "low")

\* lines 83-85: a bare Date, without eta or confidence property
EtaEarlyReturn(now) == EtaResult({}, now + DefaultDuration, FALSE, "undefined")

\* ETAService.calculateETA at instant now
calculateETA(shipment, currentLocation, trackingHistory, now) ==
  IF shipment.null \/ currentLocation.null
    THEN EtaEarlyReturn(now)
  ELSE IF trackingHistory.null
    \* trackingHistory.length of line 113 throws inside the try
    THEN EtaFallback(now)
  ELSE
    LET avgSpeed == analyzeCurrentSpeed(trackingHistory)
        num == avgSpeed[1] * getTrafficFactor(now) * getHistoricalFactor(shipment)
        den == avgSpeed[2] * 10
        remainingDistance == calculateRemainingDistance(currentLocation, shipment)
        fields == {"eta", "remaining_distance", "estimated_speed", "confidence"}
        confidence == calculateConfidence(Len(trackingHistory.rows))
    IN IF ~shipment.hasDestination
         \* parseFloat(undefined) is NaN, and so are the distance and the time
         THEN EtaResult(fields, 0, TRUE, confidence)
         \* new Date(Date.now() + estimatedTime * 1000) drops the fraction
         ELSE EtaResult(fields, now + (remainingDistance * 1000 * den) \div num,
                        FALSE, confidence)

\* arguments of a call
ShipmentArgs ==
  { NullShipment,
    [null |-> FALSE, hasDestination |-> FALSE, destination |-> 0],
    [null |-> FALSE, hasDestination |-> TRUE, destination |-> 7200] }

LocationArgs == { NullLocation } \cup { [null |-> FALSE, position |-> x] : x \in {0, 3600} }

HistoryArgs ==
  { NullHistory }
    \cup { [null |-> FALSE, rows |-> h] :
             h \in UNION { [1..n -> [speed : {0, 20}]] : n \in 0..MaxHistory } }

\* 06:59:59 and 07:00:00
NowArgs == { 7 * Hour - 1000, 7 * Hour }

\* one call of calculateETA
CallETA ==
  /\ \E shipment \in ShipmentArgs, currentLocation \in LocationArgs,
        trackingHistory \in HistoryArgs, now \in NowArgs :
       call' = [fn |-> "calculateETA",
                in |-> [shipment |-> shipment, currentLocation |-> currentLocation,
                        trackingHistory |-> trackingHistory, now |-> now],
                out |-> calculateETA(shipment, currentLocation, trackingHistory, now)]
  /\ UNCHANGED << httpVars, hubVars, pageVars >>

(* ------------- RecommendationService.analyzeIdleTime (part_011) -------- *)
TenMinutes == 10 * 60 * 1000

\* trackingHistory.filter(t => new Date(t.timestamp) > tenMinutesAgo)
RECURSIVE recentTrackingOf(_, _)
recentTrackingOf(trackingHistory, now) ==
  IF trackingHistory = << >> THEN << >>
  ELSE IF Head(trackingHistory).timestamp > now - TenMinutes
    THEN << Head(trackingHistory) >> \o recentTrackingOf(Tail(trackingHistory), now)
    ELSE recentTrackingOf(Tail(trackingHistory), now)

\* movement is any speed above zero
hasMovementAboveZero(recentTracking) ==
  \E i \in DOMAIN recentTracking : recentTracking[i].speed > 0

\* recentTracking.some(t => t.speed > 5)
hasMovement(recentTracking) ==
  \E i \in DOMAIN recentTracking : recentTracking[i].speed > 5

\* analyzeIdleTime at instant now: the recommendations it yields, none for null
analyzeIdleTime(trackingHistory, now) ==
  IF Len(trackingHistory) < 5 THEN << >>
  ELSE LET recentTracking == recentTrackingOf(trackingHistory, now) IN
       IF ~hasMovement(recentTracking) /\ Len(recentTracking) > 0
         THEN << [type |-> "idle_alert", severity |-> "medium"] >>
         ELSE << >>

\* the instant of the call: noon
IdleNow == 12 * Hour

\* samples: exactly ten minutes old or five minutes old, speed 0, 3 or 8
IdleSamples ==
  [ timestamp : {IdleNow - TenMinutes, IdleNow - TenMinutes \div 2}, speed : {0, 3, 8} ]

IdleHistories == UNION { [1..n -> IdleSamples] : n \in 0..MaxIdleHistory }

\* one call of analyzeIdleTime
CallIdle ==
  /\ call = NoCall
  /\ \E trackingHistory \in IdleHistories :
       call' = [fn |-> "analyzeIdleTime", in |-> trackingHistory,
                out |-> analyzeIdleTime(trackingHistory, IdleNow)]
  /\ UNCHANGED << httpVars, hubVars, pageVars >>

\* ---- a trip at constant speed, straight to the destination ----
\* A courier leaves position 0 at instant start, moves at `speed` m/s and is
\* sampled every minute; updateLocation (lines 46-74) stores the sample, reads
\* the history, which then holds the new sample, and asks for the ETA.
SampleInterval == 60 * 1000

TripSpeeds == {5, 15, 20, 60}

\* trips that cross 07:00 (normal to rush hour) or 22:00 (normal to night), or
\* stay in rush hour or in normal hours
TripStarts ==
  { 7 * Hour - m * SampleInterval : m \in 0..4 }
    \cup { 12 * Hour, 22 * Hour - 3 * SampleInterval, 22 * Hour - 4 * SampleInterval }

TripShipment(speed) ==
  [null |-> FALSE, hasDestination |-> TRUE,
   destination |-> TripSteps * speed * (SampleInterval \div 1000)]

\* the instant of sample k
TripNow(start, k) == start + k * SampleInterval

\* the ETA computed with sample k
TripPrediction(speed, start, k) ==
  calculateETA(TripShipment(speed),
               [null |-> FALSE, position |-> k * speed * (SampleInterval \div 1000)],
               [null |-> FALSE, rows |-> [i \in 1..(k + 1) |-> [speed |-> speed]]],
               TripNow(start, k))

\* the first sample of a trip
TripStart ==
  /\ call = NoCall
  /\ \E speed \in TripSpeeds, start \in TripStarts :
       call' = [fn |-> "trip", in |-> [speed |-> speed, start |-> start, k |-> 0],
                out |-> TripPrediction(speed, start, 0),
                prev |-> TripPrediction(speed, start, 0)]
  /\ UNCHANGED << httpVars, hubVars, pageVars >>

\* the next sample of the trip
TripSample ==
  /\ call.fn = "trip"
  /\ call.in.k < TripSteps
  /\ call' = [fn |-> "trip", in |-> [call.in EXCEPT !.k = @ + 1],
              out |-> TripPrediction(call.in.speed, call.in.start, call.in.k + 1),
              prev |-> call.out]
  /\ UNCHANGED << httpVars, hubVars, pageVars >>

(* ------------------ RouteAnalysisService (routeAnalysisService.js) ----- *)
\* Samples of a trip: position in metres along a meridian, where the
\* haversine distance of two samples is the difference of their positions;
\* timestamp in seconds.  Index i of the code is index i + 1 of the sequence.
haversineDistance(a, b) == Abs(b.position - a.position)

\* a comparison with the sample just before
impliedSpeedTooHighAdjacent(trackingData, i) ==
  LET distance == haversineDistance(trackingData[i], trackingData[i + 1])
      timeDiff == trackingData[i + 1].timestamp - trackingData[i].timestamp
  IN IF timeDiff = 0 THEN distance > 0
     ELSE IF timeDiff < 0 THEN FALSE
     ELSE distance > 50 * timeDiff

\* detectLocationAnomalies lines 273-280: distance / timeDiff > 50 for samples
\* i-2 and i; a division by 0 gives Infinity (NaN for 0/0), a negative
\* difference a speed that is not positive
impliedSpeedTooHigh(trackingData, i) ==
  LET distance == haversineDistance(trackingData[i - 1], trackingData[i + 1])
      timeDiff == trackingData[i + 1].timestamp - trackingData[i - 1].timestamp
  IN IF timeDiff = 0 THEN distance > 0
     ELSE IF timeDiff < 0 THEN FALSE
     ELSE distance > 50 * timeDiff

\* the loop of detectLocationAnomalies from index i on
RECURSIVE anomaliesFrom(_, _)
anomaliesFrom(trackingData, i) ==
  IF i >= Len(trackingData) THEN << >>
  ELSE (IF impliedSpeedTooHigh(trackingData, i)
          THEN << [type |-> "gps_jump", index |-> i,
                   timestamp |-> trackingData[i + 1].timestamp] >>
          ELSE << >>)
       \o anomaliesFrom(trackingData, i + 1)

\* RouteAnalysisService.detectLocationAnomalies
detectLocationAnomalies(trackingData) == anomaliesFrom(trackingData, 2)

TrackSamples == [ position : {0, 100, 1000}, timestamp : {0, 10, 20} ]

Tracks == UNION { [1..n -> TrackSamples] : n \in 0..MaxTrack }

\* one call of detectLocationAnomalies
CallAnomalies ==
  /\ call = NoCall
  /\ \E trackingData \in Tracks :
       call' = [fn |-> "detectLocationAnomalies", in |-> trackingData,
                out |-> detectLocationAnomalies(trackingData)]
  /\ UNCHANGED << httpVars, hubVars, pageVars >>

\* RouteAnalysisService.calculateTotalDistance
RECURSIVE calculateTotalDistance(_)
calculateTotalDistance(trackingData) ==
  IF Len(trackingData) < 2 THEN 0
  ELSE haversineDistance(trackingData[1], trackingData[2])
       + calculateTotalDistance(Tail(trackingData))

\* a quotient num / den of two distances; isNaN for 0 / 0
Quotient(num, den) ==
  [ isNaN |-> (num = 0 /\ den = 0), num |-> num, den |-> den ]

\* RouteAnalysisService.calculateRouteEfficiency
calculateRouteEfficiency(trackingData) ==
  IF Len(trackingData) < 2 THEN Quotient(0, 1)
  ELSE LET directDistance == haversineDistance(trackingData[1],
                                               trackingData[Len(trackingData)])
           actualDistance == calculateTotalDistance(trackingData)
       IN Quotient(directDistance, actualDistance)

\* one call of calculateRouteEfficiency
CallEfficiency ==
  /\ call = NoCall
  /\ \E trackingData \in Tracks :
       call' = [fn |-> "calculateRouteEfficiency", in |-> trackingData,
                out |-> calculateRouteEfficiency(trackingData)]
  /\ UNCHANGED << httpVars, hubVars, pageVars >>

(* ------------------------- specification ------------------------------- *)
Init ==
  /\ status = [s \in Shipments |-> IF s = 1 THEN "pending" ELSE "cancelled"]
  /\ updated_at = [s \in Shipments |-> 0]
  /\ tracking_locations = << >>
  /\ clock = 0
  /\ reqs = [r \in AllReqIds |-> NewReq]
  /\ last = NewReq
  /\ transitions = [s \in Shipments |-> 0]
  /\ statusUpdates = [s \in Shipments |-> 0]
  /\ firstIngests = [s \in Shipments |-> 0]
  /\ socketUser = [c \in AllConns |-> NoUser]
  /\ sockets = {}
  /\ connectedUsers = {}
  /\ closed = {}
  /\ rooms = [s \in Shipments |-> {}]
  /\ joining = {}
  /\ lastAck = NoAck
  /\ leftSince = {}
  /\ call = NoCall
  /\ driver = NewDriver
  /\ client = NewClient

\* the three HTTP endpoints, requests 1..n
Http(n) ==
  \/ \E r \in 1..n : TrackReceive(r)
  \/ \E r \in 1..n : TrackFindById(r)
  \/ \E r \in 1..n : TrackCreate(r)
  \/ \E r \in 1..n : TrackGetLatest(r)
  \/ \E r \in 1..n : TrackUpdateStatus(r)
  \/ \E r \in 1..n : TrackFinish(r)
  \/ \E r \in 1..n : ConfirmReceive(r)
  \/ \E r \in 1..n : ConfirmFindById(r)
  \/ \E r \in 1..n : ConfirmUpdate(r)
  \/ \E r \in 1..n : ConfirmFinish(r)
  \/ \E r \in 1..n : SmartUpdateLocation(r)
  \/ \E r \in 1..n : CompleteRouteAnalysis(r)
  \/ Tick

\* the socket handler, connections 1..n
Hub(n) ==
  \/ \E c \in 1..n : Connect(c)
  \/ \E c \in 1..n, id \in JoinIds : JoinStart(c, id)
  \/ \E c \in 1..n, id \in Shipments : JoinFinish(c, id)
  \/ \E c \in 1..n, id \in JoinIds : LeaveShipment(c, id)
  \/ \E c \in 1..n : Disconnect(c)

\* the ingestion endpoints and delivery confirmation
Next == Http(MaxReq)

Spec == Init /\ [][Next]_vars

\* a handler that awaits a reply of the store is resumed when the reply
\* arrives: every started handler takes its next step
HandlerStep(r) ==
  \/ TrackFindById(r) \/ TrackCreate(r) \/ TrackGetLatest(r)
  \/ TrackUpdateStatus(r) \/ TrackFinish(r)
  \/ ConfirmFindById(r) \/ ConfirmUpdate(r) \/ ConfirmFinish(r)

SpecFair == Init /\ [][Next]_vars /\ \A r \in 1..MaxReq : WF_vars(HandlerStep(r))

\* the same, with one more request in flight
NextRace == Http(RaceReq)

SpecRace == Init /\ [][NextRace]_vars

\* the socket handler alone
NextHub == Hub(MaxConn)

SpecHub == Init /\ [][NextHub]_vars

\* the socket handler and the ingestion endpoints that publish into its rooms
NextPublish ==
  \/ Hub(PubConn)
  \/ \E r \in 1..PubReq : TrackReceive(r)
  \/ \E r \in 1..PubReq : TrackFindById(r)
  \/ \E r \in 1..PubReq : TrackCreate(r)
  \/ \E r \in 1..PubReq : TrackGetLatest(r)
  \/ \E r \in 1..PubReq : TrackUpdateStatus(r)
  \/ \E r \in 1..PubReq : TrackFinish(r)
  \/ \E r \in 1..PubReq : SmartUpdateLocation(r)

SpecPublish == Init /\ [][NextPublish]_vars

\* the risk score, event after event
NextRisk == RiskScoreEvent

SpecRisk == Init /\ [][NextRisk]_vars

\* the ETA service, call after call
NextEta == CallETA

SpecEta == Init /\ [][NextEta]_vars

\* the idle analyzer on one history
NextIdle == CallIdle

SpecIdle == Init /\ [][NextIdle]_vars

\* the GPS-jump detection on one trip
NextAnomalies == CallAnomalies

SpecAnomalies == Init /\ [][NextAnomalies]_vars

\* the route efficiency of one trip
NextEfficiency == CallEfficiency

SpecEfficiency == Init /\ [][NextEfficiency]_vars

\* the ETA predictions along one trip
NextTrip == TripStart \/ TripSample

SpecTrip == Init /\ [][NextTrip]_vars

(* ------------- the accuracy of a sample, from device to row ------------ *)
\* a field of a JSON body: null, or a number
NullField == [null |-> TRUE, value |-> 0]

Field(n) == [null |-> FALSE, value |-> n]

MaxAccuracy == 1000

\* js/api.js updateLocation, lines 224-226: a falsy accuracy or speed is sent
\* as null, any other accuracy is capped
apiUpdateLocation(locationData) ==
  [locationData EXCEPT
     !.accuracy = IF @.null \/ @.value = 0 THEN NullField
                  ELSE Field(Min(@.value, MaxAccuracy)),
     !.speed = IF @.null \/ @.value = 0 THEN NullField ELSE @]

\* validateObject on an optional numeric field: null skips the rules
OptionalErrors(field, f, min, max) ==
  IF f.null THEN {}
  ELSE MinErrors(field, f.value, min) \cup MaxErrors(field, f.value, max)

\* validate(updateLocationSchema) on the whole body
updateLocationSchema(body) ==
  updateLocationValidation(body.shipment_id, body.latitude, body.longitude)
    \cup OptionalErrors("accuracy", body.accuracy, 0, MaxAccuracy)
    \cup OptionalErrors("speed", body.speed, 0, 500)

\* POST /tracking/update by the driver of shipment 1, from the validator to
\* TrackingLocationModel.create: the answer of the validator or of create,
\* and the accuracy and speed of the row that create inserts
ingestBody(body) ==
  IF updateLocationSchema(body) # {}
    THEN [stored |-> FALSE, error |-> "VALIDATION_ERROR", row |-> body]
  ELSE IF ~isValidLatitude(body.latitude) \/ ~isValidLongitude(body.longitude)
    THEN [stored |-> FALSE, error |-> "INVALID_COORDINATES", row |-> body]
  ELSE [stored |-> TRUE, error |-> "none", row |-> body]

AccuracyArgs == {NullField} \cup { Field(n) : n \in {-1, 0, 1, 1000, 1001, 5000} }

SpeedArgs == {NullField} \cup { Field(n) : n \in {-1, 0, 10, 500, 501} }

\* a sample reaches the endpoint through the driver page (api.js) or is
\* posted as it is
CallIngest ==
  /\ call = NoCall
  /\ \E via \in {"api.js", "direct"}, c \in Coordinates,
        accuracy \in AccuracyArgs, speed \in SpeedArgs :
       LET sample == [shipment_id |-> 1, latitude |-> c[1], longitude |-> c[2],
                      accuracy |-> accuracy, speed |-> speed]
           body == IF via = "api.js" THEN apiUpdateLocation(sample) ELSE sample
       IN call' = [fn |-> "ingest", in |-> [via |-> via, sample |-> sample],
                   out |-> ingestBody(body)]
  /\ UNCHANGED << httpVars, hubVars, pageVars >>

\* one sample from the device to the table
NextIngest == CallIngest

SpecIngest == Init /\ [][NextIngest]_vars

(* --------- the speed estimate of an ingestion (smart updateLocation) --- *)
\* lines 54-60: SELECT * FROM tracking_locations WHERE shipment_id = ?
\* ORDER BY timestamp DESC LIMIT 20, over the samples in the order they were
\* recorded: the newest row comes first
selectTrackingHistory(samples) ==
  [null |-> FALSE,
   rows |-> [i \in 1..Min(Len(samples), 20) |-> samples[Len(samples) + 1 - i]]]

\* the rows of the history whose speed enters the average: those that slice(-10)
\* keeps and the filter lets through
usedRows(trackingHistory) ==
  IF trackingHistory.null \/ Len(trackingHistory.rows) < 3 THEN {}
  ELSE { i \in 1..Len(trackingHistory.rows) :
           /\ i > Len(trackingHistory.rows) - 10
           /\ trackingHistory.rows[i].speed > 0
           /\ trackingHistory.rows[i].speed < 50 }

\* (index + 1) of a used row in validSpeeds, its weight times validSpeeds.length
weightOf(trackingHistory, i) ==
  Cardinality({ j \in usedRows(trackingHistory) : j <= i })

\* samples of one shipment, oldest first: all at 20 m/s but one
SpeedSamples ==
  { [i \in 1..n |-> [speed |-> IF i = p THEN s ELSE 20, timestamp |-> i]] :
      n \in 0..MaxSpeedHistory, p \in 0..MaxSpeedHistory, s \in {0, 10, 60} }

\* lines 54-60 and 69-74 with ETAService.analyzeCurrentSpeed
CallEstimatedSpeed ==
  /\ call = NoCall
  /\ \E samples \in SpeedSamples :
       call' = [fn |-> "estimatedSpeed", in |-> samples,
                out |-> [trackingHistory |-> selectTrackingHistory(samples),
                         speed |-> analyzeCurrentSpeed(selectTrackingHistory(samples))]]
  /\ UNCHANGED << httpVars, hubVars, pageVars >>

\* the speed estimate of one ingestion
NextSpeed == CallEstimatedSpeed

SpecSpeed == Init /\ [][NextSpeed]_vars

(* ------ RecommendationService.analyzeDelayProbability (part_011) ------- *)
Minute == 60 * 1000

RECURSIVE sumSpeeds(_)
sumSpeeds(speeds) ==
  IF speeds = << >> THEN 0 ELSE Head(speeds) + sumSpeeds(Tail(speeds))

\* .map(t => t.speed).filter(s => s > 0)
RECURSIVE positiveSpeedsOf(_)
positiveSpeedsOf(rows) ==
  IF rows = << >> THEN << >>
  ELSE IF Head(rows).speed > 0
    THEN << Head(rows).speed >> \o positiveSpeedsOf(Tail(rows))
    ELSE positiveSpeedsOf(Tail(rows))

\* RecommendationService.calculateDynamicETA at instant now: the Date it
\* returns; invalidDate says that its instant is NaN
calculateDynamicETA(shipment, rows, now) ==
  IF shipment.null \/ Len(rows) < 5
    THEN [time |-> now + 2 * Hour, invalidDate |-> FALSE]
  ELSE
    LET recentSpeeds == positiveSpeedsOf(Last10(rows))
        \* the plain mean; 0 / 0 is NaN, and NaN || 10 is 10
        avgSpeed == IF recentSpeeds = << >> THEN << 10, 1 >>
                    ELSE << sumSpeeds(recentSpeeds), Len(recentSpeeds) >>
        currentLocation == rows[Len(rows)]
        remainingDistance == Abs(shipment.destination - currentLocation.position)
    IN IF ~shipment.hasDestination
         THEN [time |-> 0, invalidDate |-> TRUE]
         ELSE [time |-> now + (remainingDistance * 1000 * avgSpeed[2]) \div avgSpeed[1],
               invalidDate |-> FALSE]

NoAdvisory == [type |-> "null", severity |-> "null"]

\* RecommendationService.analyzeDelayProbability at instant now; a missing
\* planned_delivery_time or an invalid ETA makes delayMinutes NaN, and
\* NaN > 30 is false
analyzeDelayProbability(shipment, rows, now) ==
  IF shipment.null \/ Len(rows) < 5 THEN NoAdvisory
  ELSE LET eta == calculateDynamicETA(shipment, rows, now) IN
       IF eta.invalidDate \/ ~shipment.hasPlanned THEN NoAdvisory
       ELSE IF eta.time - shipment.planned_delivery_time > 30 * Minute
         THEN [type |-> "delay_alert",
               severity |-> IF eta.time - shipment.planned_delivery_time > 60 * Minute
                              THEN "high" ELSE "medium"]
       ELSE NoAdvisory

DelayShipments ==
  { [null |-> TRUE, hasDestination |-> FALSE, destination |-> 0,
     hasPlanned |-> FALSE, planned_delivery_time |-> 0],
    [null |-> FALSE, hasDestination |-> FALSE, destination |-> 0,
     hasPlanned |-> FALSE, planned_delivery_time |-> 0] }
    \cup { [null |-> FALSE, hasDestination |-> TRUE, destination |-> 72000,
            hasPlanned |-> TRUE, planned_delivery_time |-> t] :
             t \in {8 * Hour, 9 * Hour, 12 * Hour, 13 * Hour} }

DelayHistories ==
  UNION { [1..n -> [speed : {0, 20, 60}, position : {0}]] : n \in 0..MaxDelayHistory }

\* 08:00, rush hour, and 12:00
DelayNows == { 8 * Hour, 12 * Hour }

\* one call of analyzeDelayProbability
CallDelay ==
  /\ call = NoCall
  /\ \E shipment \in DelayShipments, rows \in DelayHistories, now \in DelayNows :
       call' = [fn |-> "analyzeDelayProbability",
                in |-> [shipment |-> shipment, rows |-> rows, now |-> now],
                out |-> [eta |-> calculateDynamicETA(shipment, rows, now),
                         advisory |-> analyzeDelayProbability(shipment, rows, now)]]
  /\ UNCHANGED << httpVars, hubVars, pageVars >>

\* the delay analyzer on one shipment and history
NextDelay == CallDelay

SpecDelay == Init /\ [][NextDelay]_vars

(* ---- POST /smart/location/update with its accuracy (smart controller) -- *)
\* RecommendationService.analyzeGPSAccuracy: locationData.accuracy || 0
analyzeGPSAccuracy(locationData) ==
  LET accuracy == IF locationData.accuracy.null THEN 0 ELSE locationData.accuracy.value IN
  IF accuracy > 1000
    THEN [type |-> "gps_warning",
          severity |-> IF accuracy > 5000 THEN "high" ELSE "medium"]
    ELSE NoAdvisory

\* RecommendationService.analyzeTrackingData: getShipmentById and
\* getTrackingData are not exported by the controllers they are required from
\* (part_011 lines 6-7), so line 32 calls undefined, the TypeError is caught
\* at line 58 and the result is the empty list; no analyzer is reached
analyzeTrackingData(shipmentId, locationData) == << >>

\* the express-validator chain of the route on the optional fields
smartOptionalValid(body) ==
  /\ body.accuracy.null \/ body.accuracy.value >= 0
  /\ body.speed.null \/ (body.speed.value >= 0 /\ body.speed.value <= 200)

\* the whole of smart updateLocation on one body: the response it sends
smartUpdateLocation(body) ==
  IF ~smartValidation(body.shipment_id, body.latitude, body.longitude)
     \/ ~smartOptionalValid(body)
    THEN [status |-> 400, success |-> FALSE, recommendations |-> << >>, risk_score |-> 0]
  ELSE IF body.shipment_id = 0 \/ body.latitude = 0 \/ body.longitude = 0
    THEN [status |-> 400, success |-> FALSE, recommendations |-> << >>, risk_score |-> 0]
  \* line 32, pool.execute on the null pool: the catch of line 135 answers
  ELSE [status |-> 500, success |-> FALSE, recommendations |-> << >>, risk_score |-> 0]

SmartAccuracyArgs == {NullField} \cup { Field(n) : n \in {-1, 0, 500, 1000, 1001, 5000, 5001} }

\* one request to POST /smart/location/update
CallSmartUpdate ==
  /\ call = NoCall
  /\ \E id \in ShipmentIds, c \in Coordinates, accuracy \in SmartAccuracyArgs,
        speed \in SpeedArgs :
       LET body == [shipment_id |-> id, latitude |-> c[1], longitude |-> c[2],
                    accuracy |-> accuracy, speed |-> speed]
       IN call' = [fn |-> "smartUpdateLocation", in |-> body,
                   out |-> [response |-> smartUpdateLocation(body),
                            analysis |-> analyzeTrackingData(id, body),
                            gps |-> analyzeGPSAccuracy(body)]]
  /\ UNCHANGED << httpVars, hubVars, pageVars >>

\* the smart ingestion of one sample
NextSmart == CallSmartUpdate

SpecSmart == Init /\ [][NextSmart]_vars

(* ------ smart updateLocation from line 91 on: saving the advisories ---- *)
\* RecommendationService.saveRecommendation: is the row inserted.  The object
\* config/database.js exports has the methods initialize, query, transaction,
\* getPool and close; db.execute is undefined, the call throws a TypeError,
\* the catch logs it and returns false.
saveRecommendation(shipmentId, recommendation) == FALSE

\* lines 91-133 for the list analyzeTrackingData returned: the rows of
\* recommended_actions written by the loop (its awaits discard the results),
\* the recommendation_alert sent with io.emit when the list is not empty, and
\* the recommendations of the response
finishUpdateLocation(shipmentId, recommendations) ==
  [ saved |-> { i \in 1..Len(recommendations) :
                  saveRecommendation(shipmentId, recommendations[i]) },
    alert |-> IF Len(recommendations) > 0 THEN recommendations ELSE << >>,
    response |-> [recommendations |-> recommendations,
                  risk_score |-> calculateRiskScore(recommendations)] ]

\* the end of one smart ingestion, for every list the analyzers can produce
CallFinishUpdate ==
  /\ call = NoCall
  /\ \E shipmentId \in Shipments, recommendations \in RecommendationLists :
       call' = [fn |-> "finishUpdateLocation",
                in |-> [shipment_id |-> shipmentId, recommendations |-> recommendations],
                out |-> finishUpdateLocation(shipmentId, recommendations)]
  /\ UNCHANGED << httpVars, hubVars, pageVars >>

\* the advisories of one smart ingestion
NextAdvisories == CallFinishUpdate

SpecAdvisories == Init /\ [][NextAdvisories]_vars

(* ------------- the driver page's location queue (driver-new.js) -------- *)
\* api.js updateLocation as the page sees it: it resolves when the request
\* gets through and the server answers with success; it throws (handleError
\* rethrows) when fetch fails or the answer is not ok
updateLocationSucceeds == driver.isOnline /\ driver.accepting

\* handlePositionUpdate, then sendLocationUpdate up to its await: offline the
\* sample is queued, online its request is sent
PositionUpdate ==
  /\ driver.captured < MaxSamples
  /\ LET sample == driver.captured + 1 IN
     driver' = IF ~driver.isOnline
                 THEN [driver EXCEPT !.captured = sample,
                                     !.locationQueue = Append(@, sample)]
                 ELSE [driver EXCEPT !.captured = sample,
                                     !.sending = @ \cup {sample}]
  /\ UNCHANGED << httpVars, hubVars, call, client >>

\* sendLocationUpdate after its await, lines 401-416: the server stores the
\* sample, or the catch queues it
SendSettles(sample) ==
  /\ sample \in driver.sending
  /\ driver' = IF updateLocationSucceeds
                 THEN [driver EXCEPT !.sending = @ \ {sample},
                                     !.received = Append(@, sample)]
                 ELSE [driver EXCEPT !.sending = @ \ {sample},
                                     !.locationQueue = Append(@, sample)]
  /\ UNCHANGED << httpVars, hubVars, call, client >>

\* the window's offline event
Offline ==
  /\ driver.isOnline
  /\ driver' = [driver EXCEPT !.isOnline = FALSE]
  /\ UNCHANGED << httpVars, hubVars, call, client >>

\* the window's online event: isOnline = true, then processLocationQueue up
\* to its first await (lines 421-431): it returns on an empty queue, else it
\* copies the queue and empties it.  The event is taken while no earlier
\* processLocationQueue is still running.
Online ==
  /\ ~driver.isOnline
  /\ driver.flush = << >>
  /\ driver' = [driver EXCEPT !.isOnline = TRUE,
                              !.flush = driver.locationQueue,
                              !.locationQueue = << >>]
  /\ UNCHANGED << httpVars, hubVars, call, client >>

\* one turn of the loop of processLocationQueue, lines 429-436: the awaited
\* updateLocation of the next item settles; a failed item is queued again
FlushSettles ==
  /\ driver.flush # << >>
  /\ LET item == Head(driver.flush) IN
     driver' = IF updateLocationSucceeds
                 THEN [driver EXCEPT !.flush = Tail(@),
                                     !.received = Append(@, item)]
                 ELSE [driver EXCEPT !.flush = Tail(@),
                                     !.locationQueue = Append(@, item)]
  /\ UNCHANGED << httpVars, hubVars, call, client >>

\* the server starts or stops answering with success
ServerToggles ==
  /\ driver' = [driver EXCEPT !.accepting = ~@]
  /\ UNCHANGED << httpVars, hubVars, call, client >>

\* the driver page during one trip
NextDriver ==
  \/ PositionUpdate
  \/ \E sample \in 1..MaxSamples : SendSettles(sample)
  \/ Offline
  \/ Online
  \/ FlushSettles
  \/ ServerToggles

SpecDriver == Init /\ [][NextDriver]_vars

\* an awaited request settles; the events of the window, of the GPS and of
\* the server are under no obligation
SpecDriverFair ==
  /\ SpecDriver
  /\ WF_vars(FlushSettles)
  /\ \A sample \in 1..MaxSamples : WF_vars(SendSettles(sample))

(* ------------- the page's SocketClient and the socket handler ---------- *)
\* SocketClient.connect and the first 'connect' event: the server runs the
\* handshake and handleConnection for a new socket
ClientConnects ==
  /\ client.socket = 0
  /\ \E u \in SocketUsers : socketUser' = [socketUser EXCEPT ![1] = u]
  /\ sockets' = sockets \cup {1}
  /\ connectedUsers' = connectedUsers \cup {1}
  /\ client' = [client EXCEPT !.socket = 1, !.connected = TRUE]
  /\ UNCHANGED << closed, rooms, joining, lastAck, leftSince >>
  /\ UNCHANGED << httpVars, call, driver >>

\* SocketClient.joinShipment emits join_shipment; the server's
\* handleJoinShipment runs up to its findById
ClientJoinShipment(id) ==
  /\ client.connected
  /\ joining' = joining \cup {<< client.socket, id >>}
  /\ leftSince' = leftSince \ {<< client.socket, id >>}
  /\ UNCHANGED << socketUser, sockets, connectedUsers, closed, rooms, lastAck >>
  /\ UNCHANGED << httpVars, call, pageVars >>

\* the connection drops: the server takes the socket out of its rooms and
\* runs handleDisconnection; the client's 'disconnect' handler (lines 697-705)
\* clears connected
ClientDisconnects ==
  /\ client.connected
  /\ rooms' = [s \in Shipments |-> rooms[s] \ {client.socket}]
  /\ sockets' = sockets \ {client.socket}
  /\ closed' = closed \cup {client.socket}
  /\ connectedUsers' = handleDisconnection(client.socket)
  /\ client' = [client EXCEPT !.connected = FALSE,
                              !.before = { s \in Shipments : client.socket \in rooms[s] }]
  /\ UNCHANGED << socketUser, joining, lastAck, leftSince >>
  /\ UNCHANGED << httpVars, call, driver >>

\* socket.io reconnects (reconnection: true): the server sees a new socket
\* with the same token; the client's 'connect' handler (lines 675-688) sets
\* connected, resets reconnectAttempts and calls the registered listeners,
\* which log (lines 591-593); none emits join_shipment
ClientReconnects ==
  /\ ~client.connected /\ client.socket # 0
  /\ client.socket + 1 \in AllConns
  /\ LET c == client.socket + 1 IN
     /\ socketUser' = [socketUser EXCEPT ![c] = socketUser[client.socket]]
     /\ sockets' = sockets \cup {c}
     /\ connectedUsers' = connectedUsers \cup {c}
     /\ client' = [client EXCEPT !.socket = c, !.connected = TRUE, !.reconnected = TRUE]
  /\ UNCHANGED << closed, rooms, joining, lastAck, leftSince >>
  /\ UNCHANGED << httpVars, call, driver >>

\* the page's socket against the socket handler
NextClient ==
  \/ ClientConnects
  \/ \E id \in Shipments : ClientJoinShipment(id)
  \/ \E c \in AllConns, id \in Shipments : JoinFinish(c, id)
  \/ ClientDisconnects
  \/ ClientReconnects

\* the server's findById of a join returns
SpecClient ==
  /\ Init /\ [][NextClient]_vars
  /\ \A c \in AllConns, id \in Shipments : WF_vars(JoinFinish(c, id))

(* ----------------------------- properties ------------------------------ *)
\* no request handler is between two awaits
Quiescent == \A r \in AllReqIds : reqs[r].pc \in {"new", "done"}

\* the request that finished last is an ingest of either endpoint
LastIsIngest == last.kind \in {"track", "smart"}

\* the sample of the request that finished last is outside the valid ranges
LastOutOfRange ==
  \/ last.latitude < -90 \/ last.latitude > 90
  \/ last.longitude < -180 \/ last.longitude > 180

\* the request that finished last left nothing behind: no row, no column of
\* the shipment written, no event
LastNoSideEffect ==
  /\ last.loc = 0
  /\ ~last.updatedStatus
  /\ ~last.touched
  /\ last.events = {}

ValidationErrors == {"VALIDATION_ERROR", "VALIDATION_FAILED", "INVALID_COORDINATES"}

AuthorizationErrors == {"FORBIDDEN", "SHIPMENT_ACCESS_DENIED", "ORGANIZATION_ACCESS_DENIED"}

\* C1: when two or more ingests loaded the same shipment while it was pending
\* and had no stored sample, then once every handler has finished the
\* shipment's UPDATE to in_transit has run exactly once and exactly one
\* shipment_status_update event has been emitted for it.
C1_ExactlyOneTransition ==
  \A s \in Shipments :
    (firstIngests[s] >= 2 /\ Quiescent)
      => (transitions[s] = 1 /\ statusUpdates[s] = 1)

\* C2: delivered and cancelled are terminal: no step of an ingest or of a
\* delivery confirmation changes a stored status that is delivered or
\* cancelled.
C2_TerminalStatus ==
  [][\A s \in Shipments :
       status[s] \in {"delivered", "cancelled"} => status'[s] = status[s]]_vars

\* C3: the ingest that stored the first sample of a pending shipment has run
\* the UPDATE to in_transit and has emitted a location_update carrying the
\* coordinates of that sample to every live connection that was in the
\* shipment's room at that time.
C3_FirstSampleBroadcast ==
  (last.kind = "track" /\ last.loc # 0 /\ last.snap = "pending" /\ last.isFirstUpdate)
    => /\ last.updatedStatus
       /\ \A c \in last.roomAt \cap last.socketsAt :
            \E e \in last.events :
              /\ e.event = "location_update"
              /\ e.shipment_id = last.shipment_id
              /\ e.latitude = last.latitude /\ e.longitude = last.longitude
              /\ c \in e.to

\* C4 as the specification states it: an ingest whose latitude or longitude is
\* out of range is answered with a validation error and has no side effect.
C4_OutOfRangeValidationError ==
  (LastIsIngest /\ LastOutOfRange)
    => (last.response \in ValidationErrors /\ LastNoSideEffect)

\* C4: an ingest whose latitude or longitude is out of range has no side
\* effect and is answered with a validation error, except that the tracking
\* endpoint answers a caller without the driver role FORBIDDEN, because its
\* role gate runs before the validator.
C4_OutOfRangeRejected ==
  (LastIsIngest /\ LastOutOfRange)
    => /\ LastNoSideEffect
       /\ IF last.kind = "track" /\ last.user.role # "driver"
            THEN last.response = "FORBIDDEN"
            ELSE last.response \in ValidationErrors

\* a driver's out-of-range sample was answered by the validator of the
\* tracking endpoint
C4_Witness ==
  /\ last.kind = "track" /\ last.user.role = "driver"
  /\ last.latitude = 95
  /\ last.response = "VALIDATION_ERROR"

\* C5: on both endpoints an ingest with a valid sample for an existing
\* shipment, sent by a caller who is neither the shipment's driver nor an
\* administrator of the shipment's organization, is answered with an
\* authorization error and has no side effect.
C5_UnauthorizedRejected ==
  ( /\ LastIsIngest /\ ~LastOutOfRange
    /\ last.shipment_id \in Shipments
    /\ ~(last.user.role = "driver" /\ driver_id[last.shipment_id] = last.user.id)
    /\ ~(last.user.role = "admin"
           /\ last.user.organizationId = organization_id[last.shipment_id]) )
    => (last.response \in AuthorizationErrors /\ LastNoSideEffect)

\* C6: an ingest that has stored its sample answers success.
C6_SuccessAfterPersist ==
  (LastIsIngest /\ last.loc # 0) => last.response = "201"

\* connection c carries the identity of shipment s's driver
IsCourier(c, s) ==
  socketUser[c].role = "driver" /\ driver_id[s] = socketUser[c].id

\* C7 as the specification states it: a member of the room of shipment s is
\* the shipment's driver or an administrator of the shipment's organization.
C7_MemberIsCourierOrOrgAdmin ==
  \A c \in AllConns, s \in Shipments :
    c \in rooms[s]
      => \/ IsCourier(c, s)
         \/ /\ socketUser[c].role = "admin"
            /\ socketUser[c].organizationId = organization_id[s]

\* the rule of handleJoinShipment: the driver of the shipment, or an
\* administrator unless both the administrator and the shipment have an
\* organization and the two differ
MayJoin(c, s) ==
  \/ IsCourier(c, s)
  \/ /\ socketUser[c].role = "admin"
     /\ \/ socketUser[c].organizationId = NULL
        \/ organization_id[s] = NULL
        \/ socketUser[c].organizationId = organization_id[s]

\* C7: a member of the room of shipment s is the shipment's driver, or an
\* administrator whose organization does not differ from the shipment's (one
\* of the two has none, or they are equal); a join that fails this rule
\* leaves the connection out of the room, and a connection that is still
\* open is sent an error and no joined_shipment.
C7_MemberMayJoin ==
  /\ [](\A c \in AllConns, s \in Shipments : c \in rooms[s] => MayJoin(c, s))
  /\ [][\A c \in AllConns, s \in Shipments :
          (<<c, s>> \in joining /\ <<c, s>> \notin joining' /\ ~MayJoin(c, s))
            => /\ c \notin rooms'[s]
               /\ c \in sockets
                    => (lastAck'.to = c /\ lastAck'.event = "error")
               /\ c \notin sockets => lastAck' = lastAck]_vars

\* an administrator of another organization is in the room of the shipment
\* without organization and has just been denied the room of shipment 1
C7_Witness ==
  \E c \in AllConns :
    /\ socketUser[c].organizationId = "orgB"
    /\ c \in rooms[2] /\ c \notin rooms[1]
    /\ lastAck = [to |-> c, event |-> "error", shipment_id |-> 0,
                  message |-> "Access denied to this shipment"]

C10_LeftStaysOut ==
  \A p \in leftSince : p[1] \notin rooms[p[2]]

\* recommendations of severity sev in the input of the last call
CountOf(sev) == Cardinality({ i \in DOMAIN call.in : call.in[i].severity = sev })

\* 5 per low, 15 per medium, 30 per high recommendation of the last call
WeightSum == 5 * CountOf("low") + 15 * CountOf("medium") + 30 * CountOf("high")

\* C11: the risk score of an event is min(100, sum of the severity weights
\* low=5, medium=15, high=30 of that event's recommendations); it is in
\* 0..100, it is 0 when the event has no recommendation, and the events before
\* do not count.
C11_RiskScore ==
  call.fn = "calculateRiskScore"
    => /\ call.out = (IF WeightSum > 100 THEN 100 ELSE WeightSum)
       /\ call.out \in 0..100
       /\ call.in = << >> => call.out = 0

\* an event whose weights add up to more than 100 was scored 100
C11_Witness ==
  /\ call.fn = "calculateRiskScore"
  /\ WeightSum > 100
  /\ call.out = 100

\* C12: calculateETA does not throw; whatever its arguments, a missing
\* shipment or a missing current location included, the value it returns has
\* an eta and a confidence property; and when an internal error occurs the
\* eta is now + the default duration and the confidence is low.
C12_EtaRecord ==
  call.fn = "calculateETA"
    => /\ ~call.out.threw
       /\ {"eta", "confidence"} \subseteq call.out.keys
       /\ (~call.in.shipment.null /\ ~call.in.currentLocation.null
             /\ call.in.trackingHistory.null)
            => (call.out.time = call.in.now + DefaultDuration /\ call.out.confidence = "low")

\* rows of shipment s in a table
CountRows(table, s) == Cardinality({ i \in 1..Len(table) : table[i].shipment_id = s })

\* C13: no step of an ingest lowers the number of stored rows of a shipment,
\* and the history read of a shipment returns all its rows in non-decreasing
\* order of recorded_at.
C13_HistoryOrdered ==
  /\ [][\A s \in Shipments :
          CountRows(tracking_locations', s) >= CountRows(tracking_locations, s)]_vars
  /\ [](\A s \in Shipments :
          LET history == getLocationHistory(s) IN
          /\ Len(history) = CountRows(tracking_locations, s)
          /\ \A i, j \in 1..Len(history) :
               i < j => history[i].recorded_at <= history[j].recorded_at)

\* a shipment has two rows stored in different seconds, read in that order
C13_Witness ==
  \E s \in Shipments :
    /\ Len(getLocationHistory(s)) = 2
    /\ getLocationHistory(s)[1].recorded_at < getLocationHistory(s)[2].recorded_at

\* C14: a leave of shipment s by a connection that is not in the room of s is
\* acknowledged and leaves every room as it was, and a second leave changes
\* nothing that the first has not changed.
C14_LeaveIdempotent ==
  /\ [](\A c \in AllConns, s \in Shipments :
          /\ leaveRoom(leaveRoom(rooms, c, s), c, s) = leaveRoom(rooms, c, s)
          /\ c \notin rooms[s] => leaveRoom(rooms, c, s) = rooms)
  /\ [][\A c \in AllConns, s \in Shipments :
          LET ack == [to |-> c, event |-> "left_shipment", shipment_id |-> s,
                      message |-> "Successfully left shipment room"]
          IN ( /\ c \notin rooms[s]
               /\ \/ <<c, s>> \notin leftSince /\ <<c, s>> \in leftSince'
                  \/ lastAck # ack /\ lastAck' = ack )
               => (rooms' = rooms /\ lastAck' = ack /\ <<c, s>> \in leftSince')]_vars

\* driver 1, who can never be in the room of shipment 2, has left it
C14_Witness ==
  \E c \in AllConns :
    /\ socketUser[c].id = 1
    /\ lastAck.to = c /\ lastAck.event = "left_shipment" /\ lastAck.shipment_id = 2
    /\ <<c, 2>> \in leftSince

\* samples of the last call's history inside the trailing ten minutes
IdleWindow == { i \in DOMAIN call.in : call.in[i].timestamp > IdleNow - TenMinutes }

IdleAlert == << [type |-> "idle_alert", severity |-> "medium"] >>

\* C15 as the specification states it: when every sample of the trailing
\* ten-minute window has speed 0 the analyzer yields exactly one idle_alert of
\* severity medium, and when one sample of the window has a non-zero speed it
\* yields none.
C15_IdleAlertZeroSpeed ==
  call.fn = "analyzeIdleTime"
    => /\ (IdleWindow # {} /\ \A i \in IdleWindow : call.in[i].speed = 0)
            => call.out = IdleAlert
       /\ (\E i \in IdleWindow : call.in[i].speed # 0) => call.out = << >>

\* C15: the analyzer yields exactly one idle_alert of severity medium when
\* the history has at least 5 samples, the trailing ten-minute window is not
\* empty and no sample of the window has a speed above 5; otherwise it yields
\* none.
C15_IdleAlertThreshold ==
  call.fn = "analyzeIdleTime"
    => IF /\ Len(call.in) >= 5
          /\ IdleWindow # {}
          /\ \A i \in IdleWindow : call.in[i].speed <= 5
         THEN call.out = IdleAlert
         ELSE call.out = << >>

\* an alert for a window that holds a sample of speed 3
C15_Witness ==
  /\ call.fn = "analyzeIdleTime"
  /\ call.out = IdleAlert
  /\ \E i \in IdleWindow : call.in[i].speed = 3

\* sample i of the last call (counted from 0) is more than 50 m/s away from
\* sample i - 2
TwoStepJump(i) ==
  LET a == call.in[i - 1]
      b == call.in[i + 1]
      d == IF b.position >= a.position THEN b.position - a.position
                                       ELSE a.position - b.position
      t == b.timestamp - a.timestamp
  IN (t > 0 /\ d > 50 * t) \/ (t = 0 /\ d > 0)

\* C16: the detection yields one gps_jump for every index i >= 2 whose sample
\* is more than 50 units/s away from sample i - 2, in the order of the
\* indexes, and nothing else; three samples whose last is that far from the
\* first yield exactly one gps_jump, at index 2.
C16_GpsJump ==
  call.fn = "detectLocationAnomalies"
    => LET n == Len(call.in)
           jumps == { i \in 2..(n - 1) : TwoStepJump(i) }
       IN /\ Len(call.out) = Cardinality(jumps)
          /\ \A k \in DOMAIN call.out :
               /\ call.out[k].type = "gps_jump"
               /\ call.out[k].index \in jumps
               /\ \A m \in DOMAIN call.out : k < m => call.out[k].index < call.out[m].index
          /\ (n = 3 /\ TwoStepJump(2))
               => (Len(call.out) = 1 /\ call.out[1].index = 2)

\* three samples, the last where the second is and far from the first: one
\* gps_jump at index 2
C16_Witness ==
  /\ call.fn = "detectLocationAnomalies"
  /\ Len(call.in) = 3
  /\ call.in[2].position = call.in[3].position
  /\ call.in[2].timestamp < call.in[3].timestamp
  /\ Len(call.out) = 1 /\ call.out[1].index = 2

\* C17: for a trip of at least 2 samples the route efficiency is the direct
\* distance from the first to the last sample divided by the distance
\* travelled, a number greater than 0 and at most 1.
C17_EfficiencyInRange ==
  (call.fn = "calculateRouteEfficiency" /\ Len(call.in) >= 2)
    => /\ ~call.out.isNaN
       /\ call.out.den > 0
       /\ call.out.num > 0
       /\ call.out.num <= call.out.den

\* C18: a route analysis of a shipment with fewer than 2 stored samples is
\* answered with the insufficient-data error and leaves nothing behind.
C18_InsufficientData ==
  ( /\ last.kind = "analysis"
    /\ last.shipment_id \in Shipments
    /\ CountRows(tracking_locations, last.shipment_id) < 2 )
    => (last.response = "INSUFFICIENT_DATA" /\ LastNoSideEffect)

\* the instant at which the courier of the trip reaches the destination
TrueArrival == call.in.start + TripSteps * SampleInterval

\* how far a prediction is from the true arrival
EtaError(prediction) == Abs(prediction.time - TrueArrival)

\* C19 as the specification states it: along a trip at constant speed straight
\* to the destination, a prediction made from at least 3 samples is no farther
\* from the true arrival than the prediction before it, at whatever hours the
\* two are made.
C19_EtaConverges ==
  (call.fn = "trip" /\ call.in.k >= 3)
    => EtaError(call.out) <= EtaError(call.prev)

\* C19: along a trip at constant speed straight to the destination, a
\* prediction is no farther from the true arrival than the prediction before
\* it when both are made from at least 3 samples and in the same traffic
\* bucket of the day.
C19_EtaConvergesInBucket ==
  ( /\ call.fn = "trip" /\ call.in.k >= 3
    /\ getTrafficFactor(TripNow(call.in.start, call.in.k))
         = getTrafficFactor(TripNow(call.in.start, call.in.k - 1)) )
    => EtaError(call.out) <= EtaError(call.prev)

\* two predictions of the same rush hour, the later one strictly closer to
\* the true arrival
C19_Witness ==
  /\ call.fn = "trip" /\ call.in.k >= 3
  /\ getHours(TripNow(call.in.start, call.in.k - 1)) = 7
  /\ getHours(TripNow(call.in.start, call.in.k)) = 7
  /\ EtaError(call.out) < EtaError(call.prev)

\* the keys of `data` in the body a finished request was answered with:
\* trackingController answers 201 with the stored row and the status; the
\* smart controller's only success body (lines 124-133) is never reached
responseData(q) ==
  IF q.kind = "track" /\ q.response = "201"
    THEN {"location", "status_updated"}
    ELSE {}

OtherFieldsValid(sample) ==
  /\ isValidLatitude(sample.latitude) /\ isValidLongitude(sample.longitude)
  /\ sample.speed.null \/ (sample.speed.value >= 0 /\ sample.speed.value <= 500)

\* C21: a sample whose accuracy is above the maximum and whose other fields
\* are valid is stored with its accuracy set to the maximum, and no stored
\* sample has an accuracy above the maximum.
C21_AccuracyClamped ==
  call.fn = "ingest" =>
    /\ ( /\ ~call.in.sample.accuracy.null
         /\ call.in.sample.accuracy.value > MaxAccuracy
         /\ OtherFieldsValid(call.in.sample) )
         => ( /\ call.out.stored
              /\ call.out.row.accuracy = Field(MaxAccuracy) )
    /\ call.out.stored =>
         (call.out.row.accuracy.null \/ call.out.row.accuracy.value <= MaxAccuracy)

\* row i of the history is one of the 10 most recent readings
AmongTenMostRecent(rows, i) ==
  Cardinality({ j \in 1..Len(rows) : rows[j].timestamp > rows[i].timestamp }) < 10

PredictorEta ==
  calculateETA(call.in.shipment,
               IF call.in.rows = << >> THEN NullLocation
               ELSE [null |-> FALSE, position |-> call.in.rows[Len(call.in.rows)].position],
               [null |-> FALSE, rows |-> call.in.rows],
               call.in.now)

\* C23: the ETA the delay analyzer compares with the planned delivery time is
\* the ETA of calculateETA for the same shipment, history and instant; a
\* delay_alert is returned exactly when that ETA is more than 30 minutes after
\* the planned time, and it is high exactly when it is more than 60 minutes
\* after.
C23_DelayUsesPredictorEta ==
  ( /\ call.fn = "analyzeDelayProbability"
    /\ ~call.in.shipment.null /\ call.in.shipment.hasPlanned
    /\ Len(call.in.rows) >= 5 )
    => LET late == PredictorEta.time - call.in.shipment.planned_delivery_time IN
       /\ call.out.eta.invalidDate = PredictorEta.invalidDate
       /\ call.out.eta.time = PredictorEta.time
       /\ (call.out.advisory.type = "delay_alert") <=> (late > 30 * Minute)
       /\ (call.out.advisory.severity = "high") <=> (late > 60 * Minute)

\* C24: a smart location update that passes validation with an accuracy above
\* 1000 is answered with exactly one gps_warning among its recommendations,
\* medium up to 5000 and high above, and with a risk score that counts it.
C24_GpsWarningReturned ==
  ( /\ call.fn = "smartUpdateLocation"
    /\ call.in.shipment_id \in Shipments
    /\ smartValidation(call.in.shipment_id, call.in.latitude, call.in.longitude)
    /\ smartOptionalValid(call.in)
    /\ ~call.in.accuracy.null /\ call.in.accuracy.value > 1000 )
    => LET recs == call.out.response.recommendations
           warnings == { i \in 1..Len(recs) : recs[i].type = "gps_warning" }
       IN /\ call.out.response.success
          /\ Cardinality(warnings) = 1
          /\ \A i \in warnings :
               recs[i].severity = (IF call.in.accuracy.value > 5000 THEN "high" ELSE "medium")
          /\ call.out.response.risk_score >= calculateRiskScore(<< call.out.gps >>)

C26_BroadcastAfterPersist ==
  /\ LastIsIngest =>
       \A e \in last.events :
         e.event = "location_update" =>
           /\ last.response = "201"
           /\ last.loc \in 1..Len(tracking_locations)
           /\ tracking_locations[last.loc].shipment_id = e.shipment_id
           /\ tracking_locations[last.loc].latitude = e.latitude
           /\ tracking_locations[last.loc].longitude = e.longitude
  /\ \A r \in 1..MaxReq : reqs[r].loc = 0 => reqs[r].events = {}

\* an ingest has stored its row and then sent location_update
C26_Witness ==
  /\ last.kind = "track" /\ last.loc # 0
  /\ \E e \in last.events : e.event = "location_update"

\* the request that finished last is a delivery confirmation answered 200
ConfirmedDelivery(q) == q.kind = "confirm" /\ q.response = "200"

\* C27: when a confirmDelivery call for a shipment has returned success, a
\* later call for the same shipment that finishes next does not return
\* success and does not emit shipment_delivered again.
C27_ConfirmedOnce ==
  [][ ( /\ ConfirmedDelivery(last) /\ last' # last
        /\ last'.kind = "confirm" /\ last'.shipment_id = last.shipment_id )
        => (~ConfirmedDelivery(last') /\ last'.events = {}) ]_vars

\* sample is an item of locationQueue
Queued(sample) ==
  \E i \in 1..Len(driver.locationQueue) : driver.locationQueue[i] = sample

\* the server has stored sample
Received(sample) ==
  \E i \in 1..Len(driver.received) : driver.received[i] = sample

\* C28: if from some point on the page is online and the server answers with
\* success, every sample that is in locationQueue is eventually stored by the
\* server.
C28_QueuedEventuallySent ==
  (<>[](driver.isOnline /\ driver.accepting))
    => \A sample \in 1..MaxSamples : (Queued(sample) ~> Received(sample))

\* C29: the server stores the samples of a trip in the order in which the
\* page captured them.
C29_CaptureOrder ==
  \A i, j \in 1..Len(driver.received) :
    i < j => driver.received[i] < driver.received[j]

\* C30: when the page's socket has reconnected, the new socket gets into
\* every shipment room the old socket was in when it disconnected, unless the
\* connection drops again first.
C30_ResubscribedAfterReconnect ==
  \A id \in Shipments :
    (client.reconnected /\ client.connected /\ id \in client.before)
      ~> (client.socket \in rooms[id] \/ ~client.connected)

====
